---- MODULE Spec2Model ----
(***************************************************************************)
(* Model of server.Handler (src/server/handler.go): the http.Handler that  *)
(* receives the WeChat platform's handshake (GET) and pushed messages and  *)
(* events (POST), verifies their signature, decodes the XML body into a    *)
(* pooled request.Request and routes it to one callback of HandlerSetting. *)
(*                                                                         *)
(* Every goroutine of the HTTP server that runs ServeHTTP is a process p.  *)
(* ServeHTTP is cut at the points where it touches the pool, the buffer    *)
(* unit, the request body or a callback; pc[p] is its position.            *)
(*                                                                         *)
(* Strings that enter the signature are sequences of bytes (small          *)
(* naturals); other strings are TLA+ strings.  A request body is the       *)
(* sequence of its XML child elements <<name, text>>; the element BadXML   *)
(* is a point where the XML is not well formed.                            *)
(***************************************************************************)
EXTENDS Integers, Sequences, FiniteSets, TLC

\* ------------------------------------------------------------------ bounds
\* Number of goroutines serving requests at the same time.
NumProcs == 2
\* Number of distinct bufferUnit objects that can be live at the same time.
MaxUnits == 2

Procs == 1..NumProcs
UnitIds == 1..MaxUnits
NoUnit == 0

\* ----------------------------------------------------------- byte strings
RECURSIVE LexLess(_, _)
\* Go's string comparison a < b (bytewise, a proper prefix is smaller).
LexLess(a, b) ==
    IF b = <<>> THEN FALSE
    ELSE IF a = <<>> THEN TRUE
    ELSE IF Head(a) # Head(b) THEN Head(a) < Head(b)
    ELSE LexLess(Tail(a), Tail(b))

LexLeq(a, b) == a = b \/ LexLess(a, b)

\* sort.Strings over the three strings token, timestamp, nonce.
SortStrings(a, b, c) ==
    CHOOSE s \in {<<a, b, c>>, <<a, c, b>>, <<b, a, c>>,
                  <<b, c, a>>, <<c, a, b>>, <<c, b, a>>} :
        LexLeq(s[1], s[2]) /\ LexLeq(s[2], s[3])

\* The bytes checkSignature leaves in the scratch buffer: the three strings,
\* sorted, concatenated with no separator.
SignatureInput(timestamp, nonce, token) ==
    LET s == SortStrings(token, timestamp, nonce) IN s[1] \o s[2] \o s[3]

\* hex(sha1(bytes)).  SHA-1 is modelled as collision free: the digest of a
\* byte string is that string behind the marker byte 0, which no input holds.
Sha1Hex(bytes) == <<0>> \o bytes

\* checkSignature(signature, timestamp, nonce, token, buf) bool
checkSignature(signature, timestamp, nonce, token) ==
    signature = Sha1Hex(SignatureInput(timestamp, nonce, token))

\* ------------------------------------------------------ request constants
MSG_TYPE_TEXT == "text"
MSG_TYPE_IMAGE == "image"
MSG_TYPE_VOICE == "voice"
MSG_TYPE_VIDEO == "video"
MSG_TYPE_LOCATION == "location"
MSG_TYPE_LINK == "link"
MSG_TYPE_EVENT == "event"

EVENT_TYPE_SUBSCRIBE == "subscribe"
EVENT_TYPE_UNSUBSCRIBE == "unsubscribe"
EVENT_TYPE_SCAN == "SCAN"
EVENT_TYPE_LOCATION == "LOCATION"
EVENT_TYPE_CLICK == "CLICK"
EVENT_TYPE_VIEW == "VIEW"
EVENT_TYPE_MASSSENDJOBFINISH == "MASSSENDJOBFINISH"
EVENT_TYPE_MERCHANTORDER == "merchant_order"

\* ---------------------------------------------------------- request.Request
\* The fields of the superset decode target that ServeHTTP reads.
CommonHeadFields == {"MsgType"}

RequestFields ==
    CommonHeadFields \cup
    {"MsgId", "Content", "Event", "EventKey", "Latitude", "Longitude",
     "Precision", "OrderId", "OrderStatus", "ProductId", "SkuInfo", "Ticket",
     "MsgID", "Status", "TotalCount", "FilterCount", "SentCount",
     "ErrorCount", "Title", "Description", "URL", "MediaId", "Format",
     "Recognition", "LocationX", "LocationY", "Scale", "Label", "PicURL",
     "ThumbMediaId"}

\* The zero value of a field ("" for a string, 0 for a number: one value here).
ZeroValue == ""

\* The zero value of request.Request.
ZeroRequest == [f \in RequestFields |-> ZeroValue]

\* ------------------------------------------------------------ request body
\* The root element <xml> that opens a well-formed body.
XmlRoot == <<"xml", "">>
\* A point of the body where the XML is not well formed.
BadXML == <<"<", "">>

RECURSIVE UnmarshalFields(_, _)
\* xml.Unmarshal below the root: every child element whose name is a field of
\* the target overwrites that field; a field with no element keeps the value
\* the target had; decoding stops at the first syntax error and keeps what
\* it has stored so far.
UnmarshalFields(bytes, mr) ==
    IF bytes = <<>> THEN [err |-> "", v |-> mr]
    ELSE IF Head(bytes) = BadXML THEN [err |-> "xml: syntax error", v |-> mr]
    ELSE LET f == Head(bytes)[1]
         IN  UnmarshalFields(Tail(bytes),
                 IF f \in RequestFields
                 THEN [mr EXCEPT ![f] = Head(bytes)[2]] ELSE mr)

\* xml.Unmarshal(msgReqBody, msgReq)
xmlUnmarshal(bytes, mr) ==
    IF bytes = <<>> THEN [err |-> "EOF", v |-> mr]
    ELSE IF Head(bytes) # XmlRoot THEN [err |-> "xml: syntax error", v |-> mr]
    ELSE UnmarshalFields(Tail(bytes), mr)

\* -------------------------------------------------------------- bufferUnit
\* newBufferUnit: an empty signature buffer, an empty body buffer and a zero
\* decode target.
newBufferUnit ==
    [signatureBuf |-> <<>>, msgBuf |-> <<>>, msgRequest |-> ZeroRequest]

\* ---------------------------------------------------- the request router
\* Field-by-field projection of the decode target into a narrow shape.
Project(mr, fields) == [f \in CommonHeadFields \cup fields |-> mr[f]]

\* A byte slice: its bytes when it was made, the bufferUnit whose msgBuf
\* backs it (NoUnit when it has an array of its own) and, as history, the
\* bufferUnit the bytes were taken from.
Slice(backing, from, bytes) ==
    [backing |-> backing, from |-> from, bytes |-> bytes]

\* Handing out msgReqBody itself: the slice still backed by the pooled msgBuf.
msgReqBodyAlias(msgReqBody) == msgReqBody

\* msgReqBodyCopy := make([]byte, len(msgReqBody)); copy(msgReqBodyCopy,
\* msgReqBody)
msgReqBodyCopy(msgReqBody) ==
    Slice(NoUnit, msgReqBody.from, msgReqBody.bytes)

\* An event router that takes every subscribe event for a plain subscription.
EventRouterPlainSubscribe(mr, msgReqBody) ==
    CASE mr["Event"] = EVENT_TYPE_CLICK ->
           [h |-> "MenuClickEventHandler",
            arg |-> Project(mr, {"Event", "EventKey"})]
      [] mr["Event"] = EVENT_TYPE_VIEW ->
           [h |-> "MenuViewEventHandler",
            arg |-> Project(mr, {"Event", "EventKey"})]
      [] mr["Event"] = EVENT_TYPE_LOCATION ->
           [h |-> "LocationEventHandler",
            arg |-> Project(mr, {"Event", "Latitude", "Longitude", "Precision"})]
      [] mr["Event"] = EVENT_TYPE_MERCHANTORDER ->
           [h |-> "MerchantOrderEventHandler",
            arg |-> Project(mr, {"Event", "OrderId", "OrderStatus",
                                 "ProductId", "SkuInfo"})]
      [] mr["Event"] = EVENT_TYPE_SUBSCRIBE ->
           [h |-> "SubscribeEventHandler", arg |-> Project(mr, {"Event"})]
      [] mr["Event"] = EVENT_TYPE_UNSUBSCRIBE ->
           [h |-> "UnsubscribeEventHandler",
            arg |-> Project(mr, {"Event"})]
      [] mr["Event"] = EVENT_TYPE_SCAN ->
           [h |-> "ScanEventHandler",
            arg |-> Project(mr, {"Event", "EventKey", "Ticket"})]
      [] mr["Event"] = EVENT_TYPE_MASSSENDJOBFINISH ->
           [h |-> "MassSendJobFinishEventHandler",
            arg |-> [Project(mr, {"Event", "MsgId", "Status", "TotalCount",
                                  "FilterCount", "SentCount", "ErrorCount"})
                       EXCEPT !["MsgId"] = mr["MsgID"]]]
      [] OTHER ->
           [h |-> "UnknownRequestHandler", arg |-> msgReqBodyCopy(msgReqBody)]

\* An event router that fills the MsgId of MassSendJobFinish from msgReq.MsgId.
EventRouterMassSendMsgId(mr, msgReqBody) ==
    CASE mr["Event"] = EVENT_TYPE_CLICK ->
           [h |-> "MenuClickEventHandler",
            arg |-> Project(mr, {"Event", "EventKey"})]
      [] mr["Event"] = EVENT_TYPE_VIEW ->
           [h |-> "MenuViewEventHandler",
            arg |-> Project(mr, {"Event", "EventKey"})]
      [] mr["Event"] = EVENT_TYPE_LOCATION ->
           [h |-> "LocationEventHandler",
            arg |-> Project(mr, {"Event", "Latitude", "Longitude", "Precision"})]
      [] mr["Event"] = EVENT_TYPE_MERCHANTORDER ->
           [h |-> "MerchantOrderEventHandler",
            arg |-> Project(mr, {"Event", "OrderId", "OrderStatus",
                                 "ProductId", "SkuInfo"})]
      [] mr["Event"] = EVENT_TYPE_SUBSCRIBE ->
           IF mr["Ticket"] = ""
           THEN [h |-> "SubscribeEventHandler",
                 arg |-> Project(mr, {"Event"})]
           ELSE [h |-> "SubscribeByScanEventHandler",
                 arg |-> Project(mr, {"Event", "EventKey", "Ticket"})]
      [] mr["Event"] = EVENT_TYPE_UNSUBSCRIBE ->
           [h |-> "UnsubscribeEventHandler",
            arg |-> Project(mr, {"Event"})]
      [] mr["Event"] = EVENT_TYPE_SCAN ->
           [h |-> "ScanEventHandler",
            arg |-> Project(mr, {"Event", "EventKey", "Ticket"})]
      [] mr["Event"] = EVENT_TYPE_MASSSENDJOBFINISH ->
           [h |-> "MassSendJobFinishEventHandler",
            arg |-> Project(mr, {"Event", "MsgId", "Status", "TotalCount",
                                 "FilterCount", "SentCount", "ErrorCount"})]
      [] OTHER ->
           [h |-> "UnknownRequestHandler", arg |-> msgReqBodyCopy(msgReqBody)]

\* switch msgReq.Event of case request.MSG_TYPE_EVENT: the callback invoked
\* and the value handed to it.
EventRouter(mr, msgReqBody) ==
    CASE mr["Event"] = EVENT_TYPE_CLICK ->
           [h |-> "MenuClickEventHandler",
            arg |-> Project(mr, {"Event", "EventKey"})]
      [] mr["Event"] = EVENT_TYPE_VIEW ->
           [h |-> "MenuViewEventHandler",
            arg |-> Project(mr, {"Event", "EventKey"})]
      [] mr["Event"] = EVENT_TYPE_LOCATION ->
           [h |-> "LocationEventHandler",
            arg |-> Project(mr, {"Event", "Latitude", "Longitude", "Precision"})]
      [] mr["Event"] = EVENT_TYPE_MERCHANTORDER ->
           [h |-> "MerchantOrderEventHandler",
            arg |-> Project(mr, {"Event", "OrderId", "OrderStatus",
                                 "ProductId", "SkuInfo"})]
      [] mr["Event"] = EVENT_TYPE_SUBSCRIBE ->
           IF mr["Ticket"] = ""
           THEN [h |-> "SubscribeEventHandler",
                 arg |-> Project(mr, {"Event"})]
           ELSE [h |-> "SubscribeByScanEventHandler",
                 arg |-> Project(mr, {"Event", "EventKey", "Ticket"})]
      [] mr["Event"] = EVENT_TYPE_UNSUBSCRIBE ->
           [h |-> "UnsubscribeEventHandler",
            arg |-> Project(mr, {"Event"})]
      [] mr["Event"] = EVENT_TYPE_SCAN ->
           [h |-> "ScanEventHandler",
            arg |-> Project(mr, {"Event", "EventKey", "Ticket"})]
      [] mr["Event"] = EVENT_TYPE_MASSSENDJOBFINISH ->
           [h |-> "MassSendJobFinishEventHandler",
            arg |-> [Project(mr, {"Event", "MsgId", "Status", "TotalCount",
                                  "FilterCount", "SentCount", "ErrorCount"})
                       EXCEPT !["MsgId"] = mr["MsgID"]]]
      [] OTHER ->
           [h |-> "UnknownRequestHandler", arg |-> msgReqBodyCopy(msgReqBody)]

\* A router whose image case calls the video handler.
RequestRouterImageAsVideo(mr, msgReqBody) ==
    IF mr["MsgType"] = MSG_TYPE_IMAGE
    THEN [h |-> "VideoRequestHandler",
          arg |-> Project(mr, {"MsgId", "MediaId", "ThumbMediaId"})]
    ELSE IF mr["MsgType"] = MSG_TYPE_EVENT THEN EventRouter(mr, msgReqBody)
    ELSE IF mr["MsgType"] = MSG_TYPE_TEXT
    THEN [h |-> "TextRequestHandler",
          arg |-> Project(mr, {"MsgId", "Content"})]
    ELSE [h |-> "UnknownRequestHandler", arg |-> msgReqBodyCopy(msgReqBody)]

\* switch msgReq.MsgType: the callback invoked and the value handed to it.
RequestRouter(mr, msgReqBody) ==
    CASE mr["MsgType"] = MSG_TYPE_TEXT ->
           [h |-> "TextRequestHandler",
            arg |-> Project(mr, {"MsgId", "Content"})]
      [] mr["MsgType"] = MSG_TYPE_EVENT -> EventRouter(mr, msgReqBody)
      [] mr["MsgType"] = MSG_TYPE_LINK ->
           [h |-> "LinkRequestHandler",
            arg |-> Project(mr, {"MsgId", "Title", "Description", "URL"})]
      [] mr["MsgType"] = MSG_TYPE_VOICE ->
           [h |-> "VoiceRequestHandler",
            arg |-> Project(mr, {"MsgId", "MediaId", "Format", "Recognition"})]
      [] mr["MsgType"] = MSG_TYPE_LOCATION ->
           [h |-> "LocationRequestHandler",
            arg |-> Project(mr, {"MsgId", "LocationX", "LocationY", "Scale",
                                 "Label"})]
      [] mr["MsgType"] = MSG_TYPE_IMAGE ->
           [h |-> "ImageRequestHandler",
            arg |-> Project(mr, {"MsgId", "MediaId", "PicURL"})]
      [] mr["MsgType"] = MSG_TYPE_VIDEO ->
           [h |-> "VideoRequestHandler",
            arg |-> Project(mr, {"MsgId", "MediaId", "ThumbMediaId"})]
      [] OTHER ->
           [h |-> "UnknownRequestHandler", arg |-> msgReqBodyCopy(msgReqBody)]

\* --------------------------------------------------------------- the state
VARIABLES
    pc,       \* pc[p]: where goroutine p is in ServeHTTP
    req,      \* req[p]: the *http.Request r it serves
    unit,     \* unit[p]: the bufferUnit it holds, NoUnit when none
    calls,    \* calls[p]: the callbacks of handler.setting it has invoked for r
    resp,     \* resp[p]: what ServeHTTP itself has written to w
    hist,     \* hist[p]: the steps of ServeHTTP it has taken for r, a failed
              \* read or decode marked as such (history)
    units,    \* units[u]: the contents of bufferUnit u
    idle,     \* the bufferUnits stored in handler.bufferUnitPool
    written   \* the bufferUnits released after receiving body bytes (history)

vars == <<pc, req, unit, calls, resp, hist, units, idle, written>>

\* handler.setting.Token
Token == <<2>>

\* The request of a goroutine that serves none yet.
NoRequest ==
    [method |-> "", url |-> "nil", signature |-> <<>>, timestamp |-> <<>>,
     nonce |-> <<>>, echostr |-> "", body |-> <<>>]

\* NewHandler: an empty pool whose New is newBufferUnit; no request in flight.
Init ==
    /\ pc = [p \in Procs |-> "idle"]
    /\ req = [p \in Procs |-> NoRequest]
    /\ unit = [p \in Procs |-> NoUnit]
    /\ calls = [p \in Procs |-> <<>>]
    /\ resp = [p \in Procs |-> <<>>]
    /\ hist = [p \in Procs |-> <<>>]
    /\ units = [u \in UnitIds |-> newBufferUnit]
    /\ idle = {}
    /\ written = {}

\* ------------------------------------------------------------- sync.Pool
\* The bufferUnits some goroutine holds.
Held == {unit[p] : p \in Procs} \ {NoUnit}

\* A Get that leaves the item stored in the pool.
PoolGetKeep(items, u) == items

\* sync.Pool.Get: takes the item out of the pool.
PoolGet(items, u) == items \ {u}

\* sync.Pool.Put: stores the item in the pool.
PoolPut(items, u) == items \cup {u}

\* A pool made without a New function: Get on an empty pool has nothing to
\* return.
PoolNewNone == {}

\* The identity of the object a call of New constructs: the first one that
\* is neither stored in the pool nor held.
PoolNew ==
    LET free == UnitIds \ (idle \cup Held)
    IN  IF free = {} THEN {} ELSE {CHOOSE u \in free : \A v \in free : u <= v}

\* What Get can return: an item stored in the pool, or the result of New.
PoolGetChoices == idle \cup PoolNew

\* The garbage collector may drop any item stored in a sync.Pool.
PoolDrop ==
    /\ \E u \in idle :
          /\ idle' = idle \ {u}
          /\ units' = [units EXCEPT ![u] = newBufferUnit]
          /\ written' = written \ {u}
    /\ UNCHANGED <<pc, req, unit, calls, resp, hist>>

\* ------------------------------------------------- the pooled bufferUnit
\* A reset that forgets the Ticket of the decode target.
ResetUnitKeepTicket(bu) ==
    [bu EXCEPT !.signatureBuf = <<>>, !.msgBuf = <<>>,
               !.msgRequest = [ZeroRequest EXCEPT !["Ticket"] =
                                  bu.msgRequest["Ticket"]]]

\* What putBufferUnitToPool leaves in a unit: every buffer empty, the decode
\* target zero.
ResetUnit(bu) ==
    [bu EXCEPT !.signatureBuf = <<>>, !.msgBuf = <<>>,
               !.msgRequest = ZeroRequest]

\* handler.getBufferUnitFromPool() returning unit u to goroutine p.
getBufferUnitFromPool(p, u) ==
    /\ u \in PoolGetChoices
    /\ unit' = [unit EXCEPT ![p] = u]
    /\ idle' = PoolGet(idle, u)
    /\ units' = IF u \in idle THEN units
                ELSE [units EXCEPT ![u] = newBufferUnit]
    /\ written' = IF u \in idle THEN written ELSE written \ {u}

\* handler.putBufferUnitToPool(bufferUnit)
putBufferUnitToPool(u) ==
    /\ units' = [units EXCEPT ![u] = ResetUnit(@)]
    /\ idle' = PoolPut(idle, u)

\* ------------------------------------------------------------- ServeHTTP
\* handler.setting.<h>(w, r, arg)
Invoke(p, h, arg) ==
    calls' = [calls EXCEPT ![p] = Append(@, [h |-> h, arg |-> arg])]

Step(p, name) == hist' = [hist EXCEPT ![p] = Append(@, name)]

Goto(p, label) == pc' = [pc EXCEPT ![p] = label]

\* The query checks without the check of nonce.
QueryErrorNoNonce(r) ==
    IF r.url = "nil" THEN "r.URL == nil"
    ELSE IF r.url = "bad" THEN "invalid URL escape"
    ELSE IF r.signature = <<>> THEN "signature is empty"
    ELSE IF r.timestamp = <<>> THEN "timestamp is empty"
    ELSE IF r.method = "GET" /\ r.echostr = "" THEN "echostr is empty"
    ELSE ""

\* The error of the query checks of both cases, "" when they all pass.
QueryError(r) ==
    IF r.url = "nil" THEN "r.URL == nil"
    ELSE IF r.url = "bad" THEN "invalid URL escape"
    ELSE IF r.signature = <<>> THEN "signature is empty"
    ELSE IF r.timestamp = <<>> THEN "timestamp is empty"
    ELSE IF r.nonce = <<>> THEN "nonce is empty"
    ELSE IF r.method = "GET" /\ r.echostr = "" THEN "echostr is empty"
    ELSE ""

\* Start with a default case that rejects the other methods through
\* InvalidRequestHandler.
StartRejectOther(p, r) ==
    /\ pc[p] = "idle"
    /\ req' = [req EXCEPT ![p] = r]
    /\ IF r.method \in {"POST", "GET"}
       THEN IF QueryError(r) # ""
            THEN /\ calls' = [calls EXCEPT ![p] =
                        <<[h |-> "InvalidRequestHandler", arg |-> QueryError(r)]>>]
                 /\ Goto(p, "returned")
            ELSE /\ calls' = [calls EXCEPT ![p] = <<>>]
                 /\ Goto(p, "acquire")
       ELSE /\ calls' = [calls EXCEPT ![p] =
                   <<[h |-> "InvalidRequestHandler",
                      arg |-> "method not allowed"]>>]
            /\ Goto(p, "returned")
    /\ UNCHANGED <<unit, resp, hist, units, idle, written>>

\* Goroutine p enters ServeHTTP(w, r): the switch on r.Method and, for POST
\* and GET, the query checks up to the acquisition of a bufferUnit.
Start(p, r) ==
    /\ pc[p] = "idle"
    /\ req' = [req EXCEPT ![p] = r]
    /\ IF r.method \in {"POST", "GET"}
       THEN IF QueryError(r) # ""
            THEN /\ calls' = [calls EXCEPT ![p] =
                        <<[h |-> "InvalidRequestHandler", arg |-> QueryError(r)]>>]
                 /\ Goto(p, "returned")
            ELSE /\ calls' = [calls EXCEPT ![p] = <<>>]
                 /\ Goto(p, "acquire")
       ELSE /\ calls' = [calls EXCEPT ![p] = <<>>]
            /\ Goto(p, "returned")
    /\ UNCHANGED <<unit, resp, hist, units, idle, written>>

\* bufferUnit := handler.getBufferUnitFromPool()
Acquire(p) ==
    /\ pc[p] = "acquire"
    /\ \E u \in UnitIds : getBufferUnitFromPool(p, u)
    /\ Step(p, "acquire")
    /\ Goto(p, "verify")
    /\ UNCHANGED <<req, calls, resp>>

\* A call of checkSignature that passes an empty token.
CheckSignatureEmptyToken(r) ==
    checkSignature(r.signature, r.timestamp, r.nonce, <<>>)

\* The call with the timestamp passed in the place of the nonce as well.
CheckSignatureTimestampTwice(r) ==
    checkSignature(r.signature, r.timestamp, r.timestamp, Token)

\* checkSignature(signature, timestamp, nonce, handler.setting.Token,
\* bufferUnit.signatureBuf[:]) as ServeHTTP calls it for request r.
CheckSignature(r) ==
    checkSignature(r.signature, r.timestamp, r.nonce, Token)

\* Verify without the return after InvalidRequestHandler.
VerifyNoReturn(p) ==
    /\ pc[p] = "verify"
    /\ units' = [units EXCEPT ![unit[p]].signatureBuf =
                    SignatureInput(req[p].timestamp, req[p].nonce, Token)]
    /\ Step(p, "verify")
    /\ calls' = [calls EXCEPT ![p] =
                    IF CheckSignature(req[p]) THEN @
                    ELSE Append(@, [h |-> "InvalidRequestHandler",
                                    arg |-> "check signature failed"])]
    /\ IF req[p].method = "GET"
       THEN /\ resp' = [resp EXCEPT ![p] = Append(@, req[p].echostr)]
            /\ Goto(p, "release")
       ELSE /\ Goto(p, "read")
            /\ UNCHANGED resp
    /\ UNCHANGED <<req, unit, idle, written>>

\* Verify that returns on a wrong signature without calling
\* InvalidRequestHandler.
VerifySilent(p) ==
    /\ pc[p] = "verify"
    /\ units' = [units EXCEPT ![unit[p]].signatureBuf =
                    SignatureInput(req[p].timestamp, req[p].nonce, Token)]
    /\ Step(p, "verify")
    /\ IF ~CheckSignature(req[p])
       THEN /\ Goto(p, "release")
            /\ UNCHANGED <<calls, resp>>
       ELSE IF req[p].method = "GET"
       THEN /\ resp' = [resp EXCEPT ![p] = Append(@, req[p].echostr)]
            /\ Goto(p, "release")
            /\ UNCHANGED calls
       ELSE /\ Goto(p, "read")
            /\ UNCHANGED <<calls, resp>>
    /\ UNCHANGED <<req, unit, idle, written>>

\* len(bufferUnit.signatureBuf), the fixed capacity of the signature buffer,
\* scaled down to the lengths of the inputs.
SignatureBufLen == 5

\* The three strings of request r do not fit into signatureBuf[:], the
\* buffer ServeHTTP passes to checkSignature whatever their lengths.
SignatureTooLong(r) ==
    Len(Token) + Len(r.timestamp) + Len(r.nonce) > SignatureBufLen

\* if !checkSignature(...) { InvalidRequestHandler; return }, and for GET the
\* io.WriteString(w, echostr) that follows it.  checkSignature requires a
\* buffer that holds the three strings; called with a shorter one it either
\* copes and answers as usual or runs out of the buffer, which in Go is a
\* run-time panic: ServeHTTP then unwinds through its deferred release.
Verify(p) ==
    /\ pc[p] = "verify"
    /\ Step(p, "verify")
    /\ \/ /\ units' = [units EXCEPT ![unit[p]].signatureBuf =
                          SignatureInput(req[p].timestamp, req[p].nonce, Token)]
          /\ IF ~CheckSignature(req[p])
             THEN /\ Invoke(p, "InvalidRequestHandler", "check signature failed")
                  /\ Goto(p, "release")
                  /\ UNCHANGED resp
             ELSE IF req[p].method = "GET"
             THEN /\ resp' = [resp EXCEPT ![p] = Append(@, req[p].echostr)]
                  /\ Goto(p, "release")
                  /\ UNCHANGED calls
             ELSE /\ Goto(p, "read")
                  /\ UNCHANGED <<calls, resp>>
       \/ /\ SignatureTooLong(req[p])
          /\ Goto(p, "unwind")
          /\ UNCHANGED <<units, calls, resp>>
    /\ UNCHANGED <<req, unit, idle, written>>

\* Read that drops the error of io.Copy and goes on to decode.
ReadIgnoreError(p) ==
    /\ pc[p] = "read"
    /\ \E k \in 0..Len(req[p].body), failed \in BOOLEAN :
          /\ ~failed => k = Len(req[p].body)
          /\ units' = [units EXCEPT ![unit[p]].msgBuf =
                          @ \o SubSeq(req[p].body, 1, k)]
          /\ Step(p, IF failed THEN "read failed" ELSE "read")
    /\ Goto(p, "decode")
    /\ UNCHANGED <<req, unit, calls, resp, idle, written>>

\* io.Copy(bufferUnit.msgBuf, r.Body): appends the body to msgBuf; the
\* transport may fail the read after any number k of elements.
Read(p) ==
    /\ pc[p] = "read"
    /\ \E k \in 0..Len(req[p].body), failed \in BOOLEAN :
          /\ ~failed => k = Len(req[p].body)
          /\ units' = [units EXCEPT ![unit[p]].msgBuf =
                          @ \o SubSeq(req[p].body, 1, k)]
          /\ IF failed
             THEN /\ Invoke(p, "InvalidRequestHandler", "unexpected EOF")
                  /\ Goto(p, "release")
             ELSE /\ Goto(p, "decode")
                  /\ UNCHANGED calls
          /\ Step(p, IF failed THEN "read failed" ELSE "read")
    /\ UNCHANGED <<req, unit, resp, idle, written>>

\* Decode without the return after InvalidRequestHandler.
DecodeNoReturn(p) ==
    /\ pc[p] = "decode"
    /\ LET d == xmlUnmarshal(units[unit[p]].msgBuf, units[unit[p]].msgRequest)
       IN  /\ units' = [units EXCEPT ![unit[p]].msgRequest = d.v]
           /\ IF d.err # ""
              THEN Invoke(p, "InvalidRequestHandler", d.err)
              ELSE UNCHANGED calls
           /\ Step(p, IF d.err # "" THEN "decode failed" ELSE "decode")
    /\ Goto(p, "dispatch")
    /\ UNCHANGED <<req, unit, resp, idle, written>>

\* Decode whose error return leaves without the call of putBufferUnitToPool
\* (a release that is not deferred).
DecodeNoDefer(p) ==
    /\ pc[p] = "decode"
    /\ LET d == xmlUnmarshal(units[unit[p]].msgBuf, units[unit[p]].msgRequest)
       IN  /\ units' = [units EXCEPT ![unit[p]].msgRequest = d.v]
           /\ IF d.err # ""
              THEN /\ Invoke(p, "InvalidRequestHandler", d.err)
                   /\ Goto(p, "returned")
              ELSE /\ Goto(p, "dispatch")
                   /\ UNCHANGED calls
           /\ Step(p, IF d.err # "" THEN "decode failed" ELSE "decode")
    /\ UNCHANGED <<req, unit, resp, idle, written>>

\* xml.Unmarshal(msgReqBody, msgReq) on the bytes of msgBuf.
Decode(p) ==
    /\ pc[p] = "decode"
    /\ LET d == xmlUnmarshal(units[unit[p]].msgBuf, units[unit[p]].msgRequest)
       IN  /\ units' = [units EXCEPT ![unit[p]].msgRequest = d.v]
           /\ IF d.err # ""
              THEN /\ Invoke(p, "InvalidRequestHandler", d.err)
                   /\ Goto(p, "release")
              ELSE /\ Goto(p, "dispatch")
                   /\ UNCHANGED calls
           /\ Step(p, IF d.err # "" THEN "decode failed" ELSE "decode")
    /\ UNCHANGED <<req, unit, resp, idle, written>>

\* The request router: switch msgReq.MsgType { ... }, one callback.
\* msgReqBody := bufferUnit.msgBuf.Bytes(): a slice of the pooled buffer.
msgBufBytes(u) == Slice(u, u, units[u].msgBuf)

Dispatch(p) ==
    /\ pc[p] = "dispatch"
    /\ LET d == RequestRouter(units[unit[p]].msgRequest, msgBufBytes(unit[p]))
       IN  Invoke(p, d.h, d.arg)
    /\ Step(p, "dispatch")
    /\ Goto(p, "release")
    /\ UNCHANGED <<req, unit, resp, units, idle, written>>

\* A release that stores the unit in the pool as it is.
ReleaseNoReset(p) ==
    /\ pc[p] = "release"
    /\ idle' = PoolPut(idle, unit[p])
    /\ unit' = [unit EXCEPT ![p] = NoUnit]
    /\ Step(p, "release")
    /\ Goto(p, "returned")
    /\ written' = IF units[unit[p]].msgBuf # <<>>
                  THEN written \cup {unit[p]} ELSE written
    /\ UNCHANGED <<req, calls, resp, units>>

\* defer handler.putBufferUnitToPool(bufferUnit), run when ServeHTTP returns.
Release(p) ==
    /\ pc[p] \in {"release", "unwind"}
    /\ putBufferUnitToPool(unit[p])
    /\ unit' = [unit EXCEPT ![p] = NoUnit]
    /\ Step(p, "release")
    /\ Goto(p, IF pc[p] = "unwind" THEN "panicked" ELSE "returned")
    /\ written' = IF units[unit[p]].msgBuf # <<>>
                  THEN written \cup {unit[p]} ELSE written
    /\ UNCHANGED <<req, calls, resp>>

\* ServeHTTP has returned to the HTTP server, or the server has recovered
\* from its panic; goroutine p is then free to serve another request.
Finish(p) ==
    /\ pc[p] \in {"returned", "panicked"}
    /\ Goto(p, "idle")
    /\ req' = [req EXCEPT ![p] = NoRequest]
    /\ calls' = [calls EXCEPT ![p] = <<>>]
    /\ resp' = [resp EXCEPT ![p] = <<>>]
    /\ hist' = [hist EXCEPT ![p] = <<>>]
    /\ UNCHANGED <<unit, units, idle, written>>

\* ------------------------------------------------------------ the inputs
\* Signatures a client may send: none, the digests of the sorted
\* concatenations of Token <<2>> with the timestamps and nonces below, and
\* digests that differ from those (one byte changed, or not sorted).
Signatures ==
    {<<>>, <<0, 1, 1, 2>>, <<0, 1, 2, 2, 1>>, <<0, 1, 2, 3>>,
     <<0, 2, 2, 1, 3>>, <<0, 2, 1, 1>>, <<0, 1, 1, 3>>, <<1, 1, 2>>}
Timestamps == {<<>>, <<1>>, <<3>>}
Nonces == {<<>>, <<1>>, <<2, 1>>}

\* An optional XML element: absent when its text is "-".
Elem(name, text) == IF text = "-" THEN <<>> ELSE <<(<<name, text>>)>>

\* A well-formed body with the given discriminators and ticket.
Body(msgType, event, ticket) ==
    <<XmlRoot>> \o Elem("MsgType", msgType) \o Elem("Event", event)
        \o Elem("Ticket", ticket)
        \o << <<"MsgId", "123">>, <<"MsgID", "456">>,
               <<"Content", "hi">>, <<"EventKey", "key">> >>

MsgTypeInputs ==
    {MSG_TYPE_TEXT, MSG_TYPE_IMAGE, MSG_TYPE_VOICE, MSG_TYPE_VIDEO,
     MSG_TYPE_LOCATION, MSG_TYPE_LINK, MSG_TYPE_EVENT, "foo", "-"}
EventInputs ==
    {EVENT_TYPE_SUBSCRIBE, EVENT_TYPE_UNSUBSCRIBE, EVENT_TYPE_SCAN,
     EVENT_TYPE_LOCATION, EVENT_TYPE_CLICK, EVENT_TYPE_VIEW,
     EVENT_TYPE_MASSSENDJOBFINISH, EVENT_TYPE_MERCHANTORDER, "bar", "-"}
TicketInputs == {"-", "", "abc"}

WellFormedBodies ==
    {Body(m, e, t) : m \in MsgTypeInputs, e \in EventInputs, t \in TicketInputs}

\* Bodies that leave fields out or give them other values.
SparseBodies ==
    {<<XmlRoot, <<"MsgType", MSG_TYPE_TEXT>> >>,
     <<XmlRoot, <<"MsgType", MSG_TYPE_TEXT>>, <<"MsgId", "789">>,
       <<"Content", "yo">> >>,
     <<XmlRoot, <<"MsgType", MSG_TYPE_EVENT>>,
       <<"Event", EVENT_TYPE_MASSSENDJOBFINISH>>, <<"MsgId", "789">> >>}

\* Bodies that xml.Unmarshal rejects: empty, not XML, broken after two
\* elements.
MalformedBodies ==
    {<<>>, <<BadXML>>,
     <<XmlRoot, <<"MsgType", MSG_TYPE_EVENT>>, <<"Ticket", "abc">>, BadXML>>}

Request(method, url, signature, timestamp, nonce, echostr, body) ==
    [method |-> method, url |-> url, signature |-> signature,
     timestamp |-> timestamp, nonce |-> nonce, echostr |-> echostr,
     body |-> body]

\* Requests whose URL is nil or whose query does not parse.
NoQueryRequests ==
    {Request(m, u, <<>>, <<>>, <<>>, "", <<>>) :
        m \in {"GET", "POST", "PUT"}, u \in {"nil", "bad"}}

\* Every method with every combination of query parameters.
QueryRequests ==
    {Request(m, "ok", s, t, n, e, Body(MSG_TYPE_TEXT, "-", "-")) :
        m \in {"GET", "POST", "PUT"}, s \in Signatures, t \in Timestamps,
        n \in Nonces, e \in {"", "hello"}}

\* Authentic POSTs with every body.
BodyRequests ==
    {Request("POST", "ok", <<0, 1, 2, 2, 1>>, <<1>>, <<2, 1>>, "", b) :
        b \in WellFormedBodies \cup SparseBodies \cup MalformedBodies}

\* The requests served by one goroutine at a time.
SeqRequests == NoQueryRequests \cup QueryRequests \cup BodyRequests

\* The requests served by concurrent goroutines.
ConcRequests ==
    {Request("POST", "ok", <<0, 1, 1, 2>>, <<1>>, <<1>>, "",
             <<XmlRoot, <<"MsgType", "foo">> >>),
     Request("POST", "ok", <<0, 1, 1, 2>>, <<1>>, <<1>>, "",
             <<BadXML>>),
     Request("GET", "ok", <<0, 1, 2, 3>>, <<3>>, <<1>>, "hello", <<>>)}

\* ------------------------------------------------------ the specifications
\* One step of goroutine p serving requests drawn from R.
Serve(p, R) ==
    \/ \E r \in R : Start(p, r)
    \/ Acquire(p)
    \/ Verify(p)
    \/ Read(p)
    \/ Decode(p)
    \/ Dispatch(p)
    \/ Release(p)
    \/ Finish(p)

\* Concurrent goroutines.
Next == (\E p \in Procs : Serve(p, ConcRequests)) \/ PoolDrop

Spec == Init /\ [][Next]_vars

\* One goroutine, every input.
NextSeq == Serve(1, SeqRequests) \/ PoolDrop

SpecSeq == Init /\ [][NextSeq]_vars

\* Timestamps and nonces of one or two characters.
SigStrings == {<<1>>, <<2>>, <<1, 1>>, <<1, 2>>, <<2, 1>>, <<2, 2>>}

\* Every digest of three to five characters: the right signature of every
\* timestamp and nonce of SigStrings is among them, and so is each of its
\* neighbours that differs from it in one character or in length.
SigSignatures ==
    {<<0>> \o a \o b \o c : a \in {<<1>>, <<2>>}, b \in SigStrings,
                             c \in SigStrings}

\* Handshakes with every signature, timestamp and nonce, and messages with
\* the right signature and with a wrong one.
SigRequests ==
    {Request("GET", "ok", s, t, n, "hello", <<>>) :
        s \in SigSignatures, t \in SigStrings, n \in SigStrings}
    \cup
    {Request("POST", "ok", s, t, n, "", <<XmlRoot, <<"MsgType", MSG_TYPE_TEXT>> >>) :
        s \in {<<0, 1, 2, 2, 2>>, <<0, 1, 2, 2, 1>>}, t \in {<<1, 2>>},
        n \in {<<2>>}}

\* One goroutine, every signature.
NextSig == Serve(1, SigRequests) \/ PoolDrop

SpecSig == Init /\ [][NextSig]_vars

\* Every method, URL and body, with timestamps and nonces that fit into the
\* signature buffer together with the Token and with ones that do not.
LongRequests ==
    {Request(m, u, s, t, n, e, b) :
        m \in {"GET", "POST", "PUT"}, u \in {"ok", "nil", "bad"},
        s \in {<<>>, <<0, 1, 1, 2>>, <<0, 1, 1, 1, 1, 2, 3>>, <<0, 1, 2, 3>>},
        t \in {<<>>, <<1>>, <<1, 1, 1, 3>>},
        n \in {<<>>, <<1>>, <<1, 2, 3, 1, 2>>},
        e \in {"", "hello"},
        b \in {<<>>, <<BadXML>>, <<XmlRoot, <<"MsgType", MSG_TYPE_TEXT>> >>}}

\* One goroutine, inputs of every length.
NextLong == Serve(1, LongRequests) \/ PoolDrop

SpecLong == Init /\ [][NextLong]_vars

\* ------------------------------------------------------------- properties
\* The number of times step name occurs in a history.
Count(h, name) == Cardinality({i \in 1..Len(h) : h[i] = name})

Took(p, name) == \E i \in 1..Len(hist[p]) : hist[p][i] = name

\* The callbacks of the handler set other than InvalidRequestHandler.
Routed(p) ==
    {i \in 1..Len(calls[p]) : calls[p][i].h # "InvalidRequestHandler"}

\* C1: a bufferUnit is never held by two goroutines at once, and a unit that
\* a goroutine holds is not stored in the pool, from where Get could hand it
\* to another goroutine.
C1_ExclusiveUnit ==
    \A p \in Procs :
        unit[p] # NoUnit =>
            /\ unit[p] \notin idle
            /\ \A q \in Procs \ {p} : unit[q] # unit[p]

\* Two goroutines hold units at once, one of them a unit that an earlier
\* request has used and that was acquired while the other was held.
C1_Witness ==
    \E p \in Procs : \E q \in Procs \ {p} :
        /\ pc[p] = "dispatch"
        /\ pc[q] = "verify"
        /\ unit[q] \in written

\* C2: at the moment a request has acquired a unit (before it has used it),
\* the unit's msgBuf is empty and its msgRequest is the zero value, whatever
\* earlier requests did with the unit.
C2_CleanOnAcquire ==
    \A p \in Procs :
        pc[p] = "verify" =>
            /\ units[unit[p]].msgBuf = <<>>
            /\ units[unit[p]].msgRequest = ZeroRequest

\* A request has just acquired a unit into which an earlier request has
\* read a body.
C2_Witness ==
    \E p \in Procs : pc[p] = "verify" /\ unit[p] \in written

\* C3: when ServeHTTP has returned after acquiring a unit, the unit has been
\* released exactly once, as the last step; before the release the request
\* holds its unit, and a request that acquired none holds none.
C3_ReleasedOnce ==
    \A p \in Procs :
        /\ (pc[p] = "returned" /\ Took(p, "acquire")) =>
              /\ Count(hist[p], "release") = 1
              /\ hist[p][Len(hist[p])] = "release"
              /\ unit[p] = NoUnit
        /\ (pc[p] # "returned" /\ Took(p, "acquire")) =>
              /\ Count(hist[p], "release") = 0
              /\ unit[p] # NoUnit
        /\ ~Took(p, "acquire") => unit[p] = NoUnit

\* ServeHTTP has returned on the decode failure path.
C3_Witness ==
    \E p \in Procs :
        /\ pc[p] = "returned"
        /\ hist[p] = <<"acquire", "verify", "read", "decode failed", "release">>

\* C4: no request causes more than one callback of the handler set to be
\* invoked.
C4_AtMostOneCallback == \A p \in Procs : Len(calls[p]) <= 1

\* ServeHTTP has returned after a decode failure, having invoked one callback.
C4_Witness ==
    \E p \in Procs :
        /\ pc[p] = "returned"
        /\ Took(p, "decode failed")
        /\ Len(calls[p]) = 1

\* The signature the platform computes for Token <<2>>: the digest of the
\* three strings in ascending order, written out for each timestamp and
\* nonce of the inputs.
ExpectedSignature(timestamp, nonce) ==
    CASE timestamp = <<1>> /\ nonce = <<1>> -> <<0, 1, 1, 2>>
      [] timestamp = <<1>> /\ nonce = <<2, 1>> -> <<0, 1, 2, 2, 1>>
      [] timestamp = <<3>> /\ nonce = <<1>> -> <<0, 1, 2, 3>>
      [] timestamp = <<3>> /\ nonce = <<2, 1>> -> <<0, 2, 2, 1, 3>>
      [] OTHER -> <<>>

\* The query of r lacks a parameter its method requires, or does not parse.
Incomplete(r) ==
    \/ r.url # "ok"
    \/ r.signature = <<>> \/ r.timestamp = <<>> \/ r.nonce = <<>>
    \/ (r.method = "GET" /\ r.echostr = "")

\* The query of r is complete and its signature is the platform's.
Authentic(r) ==
    ~Incomplete(r) /\ r.signature = ExpectedSignature(r.timestamp, r.nonce)

IsPrefix(s, t) == Len(s) <= Len(t) /\ s = SubSeq(t, 1, Len(s))

\* C5 as stated: every request that ServeHTTP has returned from has caused
\* at least one callback.
C5_AtLeastOneCallback ==
    \A p \in Procs : pc[p] = "returned" => Len(calls[p]) >= 1

\* C5 amended: when ServeHTTP has returned, it has invoked no callback
\* exactly for a GET whose signature verifies and for a method other than
\* GET and POST; every POST, and every GET that fails a query check or the
\* signature check, has caused at least one callback.
C5_CallbackUnlessHandshake ==
    \A p \in Procs :
        pc[p] = "returned" =>
            (Len(calls[p]) = 0 <=>
                \/ req[p].method \notin {"GET", "POST"}
                \/ (req[p].method = "GET" /\ Authentic(req[p])))

\* ServeHTTP has returned from a GET whose signature check failed, having
\* invoked a callback.
C5_Witness ==
    \E p \in Procs :
        /\ pc[p] = "returned"
        /\ req[p].method = "GET"
        /\ Took(p, "verify")
        /\ Len(calls[p]) = 1

\* C6: a POST takes its steps only in the order acquire, verify, read,
\* decode, dispatch, release, leaving out the steps after a failure; with a
\* wrong signature the body is never read or decoded and no typed or
\* Unknown handler is invoked; a typed or Unknown handler is invoked only
\* after verify, read and decode have succeeded, by the dispatch step, and
\* the request holds its unit until after that call.
C6_PostOrder ==
    \A p \in Procs :
        req[p].method = "POST" =>
            /\ \E full \in
                  {<<"acquire", "verify", "release">>,
                   <<"acquire", "verify", "read failed", "release">>,
                   <<"acquire", "verify", "read", "decode failed", "release">>,
                   <<"acquire", "verify", "read", "decode", "dispatch",
                     "release">>} : IsPrefix(hist[p], full)
            /\ ~Authentic(req[p]) =>
                  /\ \A n \in {"read", "read failed", "decode",
                                "decode failed", "dispatch"} : ~Took(p, n)
                  /\ Routed(p) = {}
                  /\ unit[p] # NoUnit =>
                        /\ units[unit[p]].msgBuf = <<>>
                        /\ units[unit[p]].msgRequest = ZeroRequest
            /\ Routed(p) # {} =>
                  /\ Authentic(req[p])
                  /\ IsPrefix(<<"acquire", "verify", "read", "decode",
                                "dispatch">>, hist[p])
            /\ (Routed(p) # {} /\ pc[p] = "release") =>
                  (unit[p] # NoUnit /\ unit[p] \notin idle)

\* A POST has gone through all six steps and a typed or Unknown handler
\* has been invoked.
C6_Witness ==
    \E p \in Procs :
        /\ req[p].method = "POST"
        /\ hist[p] = <<"acquire", "verify", "read", "decode", "dispatch",
                       "release">>
        /\ Routed(p) # {}

\* C7: a GET or POST whose query lacks signature, timestamp or nonce, or
\* (GET) echostr, or does not parse, or whose URL is nil, is answered by one
\* InvalidRequestHandler call and nothing else: no unit is acquired, the
\* signature is not checked, the body is not read, echostr is not written.
C7_MissingParameter ==
    \A p \in Procs :
        (pc[p] # "idle" /\ req[p].method \in {"GET", "POST"}
            /\ Incomplete(req[p])) =>
            /\ pc[p] = "returned"
            /\ Len(calls[p]) = 1
            /\ calls[p][1].h = "InvalidRequestHandler"
            /\ hist[p] = <<>>
            /\ unit[p] = NoUnit
            /\ resp[p] = <<>>

\* A POST with a signature and a timestamp but no nonce has been answered.
C7_Witness ==
    \E p \in Procs :
        /\ pc[p] = "returned"
        /\ req[p].method = "POST"
        /\ req[p].signature # <<>> /\ req[p].timestamp # <<>>
        /\ req[p].nonce = <<>>
        /\ calls[p] = <<[h |-> "InvalidRequestHandler",
                         arg |-> "nonce is empty"]>>

\* The error xml.Unmarshal reports for a body it rejects.
DecodeErrorOf(body) == IF body = <<>> THEN "EOF" ELSE "xml: syntax error"

\* C8: for a POST with the platform's signature, a failed read of the body,
\* and a completely read body that is not well-formed XML, each lead to one
\* InvalidRequestHandler call with the error of the read or of the decoder,
\* to no dispatch and to no typed or Unknown handler.
C8_ReadOrDecodeFailure ==
    \A p \in Procs :
        (req[p].method = "POST" /\ Authentic(req[p])) =>
            /\ Took(p, "read failed") =>
                  /\ calls[p] = <<[h |-> "InvalidRequestHandler",
                                   arg |-> "unexpected EOF"]>>
                  /\ ~Took(p, "decode") /\ ~Took(p, "decode failed")
                  /\ ~Took(p, "dispatch")
                  /\ pc[p] \in {"release", "returned"}
            /\ (Took(p, "read") /\ req[p].body \in MalformedBodies
                    /\ pc[p] # "decode") =>
                  /\ calls[p] = <<[h |-> "InvalidRequestHandler",
                                   arg |-> DecodeErrorOf(req[p].body)]>>
                  /\ ~Took(p, "dispatch")
                  /\ pc[p] \in {"release", "returned"}

\* ServeHTTP has returned from a POST whose read of a non-empty body was
\* aborted.
C8_Witness ==
    \E p \in Procs :
        /\ pc[p] = "returned"
        /\ req[p].method = "POST"
        /\ hist[p] = <<"acquire", "verify", "read failed", "release">>
        /\ req[p].body # <<>>
        /\ Len(calls[p]) = 1

\* C9: for a GET with non-empty signature, timestamp, nonce and echostr,
\* once the signature has been checked: if it is the platform's, ServeHTTP
\* has written exactly echostr and invoked no callback; if not, it has
\* written nothing and invoked InvalidRequestHandler.  ServeHTTP writes
\* nothing in any other case.
C9_Handshake ==
    \A p \in Procs :
        /\ (req[p].method = "GET" /\ ~Incomplete(req[p])
                /\ pc[p] \in {"release", "returned"}) =>
              IF req[p].signature = ExpectedSignature(req[p].timestamp, req[p].nonce)
              THEN resp[p] = <<req[p].echostr>> /\ calls[p] = <<>>
              ELSE /\ resp[p] = <<>>
                   /\ calls[p] = <<[h |-> "InvalidRequestHandler",
                                    arg |-> "check signature failed"]>>
        /\ resp[p] # <<>> => (req[p].method = "GET" /\ Authentic(req[p]))

\* A handshake with the platform's signature has been answered with hello.
C9_Witness ==
    \E p \in Procs :
        /\ pc[p] = "returned"
        /\ req[p].method = "GET"
        /\ req[p].timestamp = <<3>> /\ req[p].nonce = <<2, 1>>
        /\ resp[p] = <<"hello">>

\* The text of element name in a body, "" when the body has none.
BodyField(body, name) ==
    IF \E i \in 1..Len(body) : body[i][1] = name
    THEN body[CHOOSE i \in 1..Len(body) : body[i][1] = name][2]
    ELSE ""

\* The routing table: the handlers that (MsgType, Event) may go to.
RoutingTable(msgType, event) ==
    CASE msgType = "text" -> {"TextRequestHandler"}
      [] msgType = "link" -> {"LinkRequestHandler"}
      [] msgType = "voice" -> {"VoiceRequestHandler"}
      [] msgType = "location" -> {"LocationRequestHandler"}
      [] msgType = "image" -> {"ImageRequestHandler"}
      [] msgType = "video" -> {"VideoRequestHandler"}
      [] msgType = "event" ->
           (CASE event = "CLICK" -> {"MenuClickEventHandler"}
              [] event = "VIEW" -> {"MenuViewEventHandler"}
              [] event = "LOCATION" -> {"LocationEventHandler"}
              [] event = "merchant_order" -> {"MerchantOrderEventHandler"}
              [] event = "subscribe" ->
                   {"SubscribeEventHandler", "SubscribeByScanEventHandler"}
              [] event = "unsubscribe" -> {"UnsubscribeEventHandler"}
              [] event = "SCAN" -> {"ScanEventHandler"}
              [] event = "MASSSENDJOBFINISH" ->
                   {"MassSendJobFinishEventHandler"}
              [] OTHER -> {"UnknownRequestHandler"})
      [] OTHER -> {"UnknownRequestHandler"}

\* C10: for a POST with the platform's signature whose well-formed body has
\* been read and decoded and which has passed the router, exactly one
\* callback has been invoked and it is the one the routing table gives for
\* the MsgType and Event of the body.
C10_Routing ==
    \A p \in Procs :
        (req[p].method = "POST" /\ Authentic(req[p])
            /\ req[p].body \in WellFormedBodies
            /\ Took(p, "read") /\ pc[p] \in {"release", "returned"}) =>
            /\ Len(calls[p]) = 1
            /\ calls[p][1].h \in
                  RoutingTable(BodyField(req[p].body, "MsgType"),
                               BodyField(req[p].body, "Event"))

\* An image message whose body also names an event has gone to the image
\* handler.
C10_Witness ==
    \E p \in Procs :
        /\ pc[p] = "returned"
        /\ BodyField(req[p].body, "MsgType") = "image"
        /\ BodyField(req[p].body, "Event") = "CLICK"
        /\ Len(calls[p]) = 1
        /\ calls[p][1].h = "ImageRequestHandler"

\* C11: an authentic POST whose decoded body has MsgType event and Event
\* subscribe goes to SubscribeEventHandler when the body has no Ticket or an
\* empty one, and to SubscribeByScanEventHandler, with the EventKey and the
\* Ticket of the body, when the body has a non-empty Ticket.
C11_SubscribeSplit ==
    \A p \in Procs :
        (req[p].method = "POST" /\ Authentic(req[p])
            /\ req[p].body \in WellFormedBodies
            /\ BodyField(req[p].body, "MsgType") = "event"
            /\ BodyField(req[p].body, "Event") = "subscribe"
            /\ Took(p, "read") /\ pc[p] \in {"release", "returned"}) =>
            /\ Len(calls[p]) = 1
            /\ IF BodyField(req[p].body, "Ticket") = ""
               THEN calls[p][1].h = "SubscribeEventHandler"
               ELSE /\ calls[p][1].h = "SubscribeByScanEventHandler"
                    /\ calls[p][1].arg["Ticket"] =
                          BodyField(req[p].body, "Ticket")
                    /\ calls[p][1].arg["EventKey"] =
                          BodyField(req[p].body, "EventKey")

\* A subscribe event with Ticket abc has gone to SubscribeByScanEventHandler
\* with that ticket and the key of the body.
C11_Witness ==
    \E p \in Procs :
        /\ pc[p] = "returned"
        /\ Len(calls[p]) = 1
        /\ calls[p][1].h = "SubscribeByScanEventHandler"
        /\ calls[p][1].arg["Ticket"] = "abc"
        /\ calls[p][1].arg["EventKey"] = "key"

\* What a reader of slice s sees now: the bytes of its own array, or, for a
\* slice backed by a pooled msgBuf, whatever the buffer's array holds now in
\* the slice's range (the bytes written since the last reset, then the old
\* ones).
View(s) ==
    IF s.backing = NoUnit THEN s.bytes
    ELSE LET cur == units[s.backing].msgBuf
         IN  [i \in 1..Len(s.bytes) |->
                  IF i <= Len(cur) THEN cur[i] ELSE s.bytes[i]]

Before(a, b) ==
    \/ a = b
    \/ \E i \in 1..(Len(b)) :
          /\ \A j \in 1..(i - 1) : j <= Len(a) /\ a[j] = b[j]
          /\ (i > Len(a) \/ a[i] < b[i])

\* The signature the platform computes for a timestamp and a nonce under
\* the configured Token: the digest of the three strings put in ascending
\* order one after the other.
PlatformSignature(timestamp, nonce) ==
    LET three == <<Token, timestamp, nonce>>
        order == CHOOSE o \in {<<1, 2, 3>>, <<1, 3, 2>>, <<2, 1, 3>>,
                               <<2, 3, 1>>, <<3, 1, 2>>, <<3, 2, 1>>} :
                     /\ Before(three[o[1]], three[o[2]])
                     /\ Before(three[o[2]], three[o[3]])
    IN  <<0>> \o three[order[1]] \o three[order[2]] \o three[order[3]]

\* Strings a and b have the same length and differ in exactly one character.
OneCharacterApart(a, b) ==
    /\ Len(a) = Len(b)
    /\ Cardinality({i \in 1..Len(a) : a[i] # b[i]}) = 1

\* The correctly signed triples of signature, timestamp and nonce.
RightlySigned ==
    {<<PlatformSignature(t, n), t, n>> : t \in SigStrings, n \in SigStrings}

\* Request r is a correctly signed request with a single character of its
\* signature, its timestamp or its nonce changed.
Tampered(r) ==
    \E x \in RightlySigned :
        \/ r.timestamp = x[2] /\ r.nonce = x[3]
              /\ OneCharacterApart(r.signature, x[1])
        \/ r.signature = x[1] /\ r.nonce = x[3]
              /\ OneCharacterApart(r.timestamp, x[2])
        \/ r.signature = x[1] /\ r.timestamp = x[2]
              /\ OneCharacterApart(r.nonce, x[3])

\* ServeHTTP has checked the signature of p's request and not rejected it.
Accepted(p) ==
    /\ Took(p, "verify")
    /\ \A i \in 1..Len(calls[p]) :
          calls[p][i] # [h |-> "InvalidRequestHandler",
                         arg |-> "check signature failed"]

\* C13: once ServeHTTP has checked the signature of a request, it has
\* accepted the request exactly when the signature is the digest of token,
\* timestamp and nonce put in ascending order one after the other; in
\* particular it has rejected every request that differs from a correctly
\* signed one in a single character of the signature, the timestamp or the
\* nonce.
C13_SignatureExact ==
    \A p \in Procs :
        Took(p, "verify") =>
            /\ Accepted(p) <=>
                  req[p].signature =
                      PlatformSignature(req[p].timestamp, req[p].nonce)
            /\ Tampered(req[p]) => ~Accepted(p)

\* A handshake has been rejected whose timestamp differs in one character
\* from the timestamp its signature was computed for.
C13_Witness ==
    \E p \in Procs :
        /\ pc[p] = "returned"
        /\ req[p].method = "GET"
        /\ req[p].timestamp = <<1, 2>>
        /\ req[p].nonce = <<2, 1>>
        /\ req[p].signature = PlatformSignature(<<1, 1>>, <<2, 1>>)
        /\ Tampered(req[p])
        /\ ~Accepted(p)

\* C14: ServeHTTP on a request whose method is neither GET nor POST returns
\* at once: it has written nothing, invoked no callback, acquired no
\* bufferUnit and taken no other step, and the pool and every bufferUnit are
\* as they were before the request.
C14_OtherMethodIgnored ==
    [][\A p \in Procs :
          (pc[p] = "idle" /\ pc'[p] # "idle"
              /\ req'[p].method \notin {"GET", "POST"}) =>
              /\ pc'[p] = "returned"
              /\ calls'[p] = <<>>
              /\ resp'[p] = <<>>
              /\ hist'[p] = <<>>
              /\ unit'[p] = NoUnit
              /\ UNCHANGED <<unit, units, idle>>]_vars

\* ServeHTTP has returned from a PUT with a complete query while the pool
\* stores a bufferUnit.
C14_Witness ==
    \E p \in Procs :
        /\ pc[p] = "returned"
        /\ req[p].method = "PUT"
        /\ ~Incomplete(req[p])
        /\ calls[p] = <<>>
        /\ idle # {}

ShapeOf(h) ==
    {"MsgType"} \cup
    CASE h = "TextRequestHandler" -> {"MsgId", "Content"}
      [] h = "LinkRequestHandler" -> {"MsgId", "Title", "Description", "URL"}
      [] h = "VoiceRequestHandler" ->
           {"MsgId", "MediaId", "Format", "Recognition"}
      [] h = "LocationRequestHandler" ->
           {"MsgId", "LocationX", "LocationY", "Scale", "Label"}
      [] h = "ImageRequestHandler" -> {"MsgId", "MediaId", "PicURL"}
      [] h = "VideoRequestHandler" -> {"MsgId", "MediaId", "ThumbMediaId"}
      [] h \in {"MenuClickEventHandler", "MenuViewEventHandler"} ->
           {"Event", "EventKey"}
      [] h = "LocationEventHandler" ->
           {"Event", "Latitude", "Longitude", "Precision"}
      [] h = "MerchantOrderEventHandler" ->
           {"Event", "OrderId", "OrderStatus", "ProductId", "SkuInfo"}
      [] h \in {"SubscribeEventHandler", "UnsubscribeEventHandler"} ->
           {"Event"}
      [] h \in {"SubscribeByScanEventHandler", "ScanEventHandler"} ->
           {"Event", "EventKey", "Ticket"}
      [] h = "MassSendJobFinishEventHandler" ->
           {"Event", "MsgId", "Status", "TotalCount", "FilterCount",
            "SentCount", "ErrorCount"}

\* The element of the body that field f of the value given to h comes from.
ElementOf(h, f) ==
    IF h = "MassSendJobFinishEventHandler" /\ f = "MsgId" THEN "MsgID" ELSE f

\* C16: the value given to a typed handler has exactly the fields of the
\* handler's shape, each with the text the element of that name has in the
\* body of this request (the empty string when the body has no such
\* element); the MsgId of MassSendJobFinish has the text of the element
\* MsgID.
C16_TypedPayload ==
    \A p \in Procs :
        (req[p].method = "POST" /\ Authentic(req[p])
            /\ req[p].body \in WellFormedBodies \cup SparseBodies
            /\ Took(p, "dispatch")) =>
            \A i \in 1..Len(calls[p]) :
                LET h == calls[p][i].h
                    arg == calls[p][i].arg
                IN  h # "UnknownRequestHandler" =>
                        /\ DOMAIN arg = ShapeOf(h)
                        /\ \A f \in DOMAIN arg :
                              arg[f] = BodyField(req[p].body, ElementOf(h, f))

\* MassSendJobFinishEventHandler has been given the MsgID of a body that
\* carries a different MsgId as well.
C16_Witness ==
    \E p \in Procs :
        /\ pc[p] = "returned"
        /\ Len(calls[p]) = 1
        /\ calls[p][1].h = "MassSendJobFinishEventHandler"
        /\ BodyField(req[p].body, "MsgId") = "123"
        /\ calls[p][1].arg["MsgId"] = "456"

\* Goroutine p can acquire a bufferUnit now.
C17_CanAcquire(p) ==
    /\ PoolGetChoices # {}
    /\ idle = {} => PoolNew # {}

\* The step in which p acquires gives it a unit that no goroutine held and,
\* when the pool stored none, a newly constructed one.
C17_AcquireStep(p) ==
    (pc[p] = "acquire" /\ pc'[p] # "acquire") =>
        /\ unit'[p] # NoUnit
        /\ unit'[p] \notin Held
        /\ idle = {} => /\ units'[unit'[p]] = newBufferUnit
                        /\ unit'[p] \notin written'

\* C17: a request that has reached the acquisition is never kept from
\* acquiring, however many bufferUnits other requests hold: the pool has a
\* stored unit for it or constructs a new one, and the unit it gets is held
\* by no other request.
C17_AcquireNeverBlocks ==
    /\ [](\A p \in Procs : pc[p] = "acquire" => C17_CanAcquire(p))
    /\ [][\A p \in Procs : C17_AcquireStep(p)]_vars

\* Every other goroutine holds a bufferUnit in the middle of its request,
\* the pool stores none, and p has acquired a unit of its own that no
\* earlier request has written to.
C17_Witness ==
    \E p \in Procs :
        /\ pc[p] = "verify"
        /\ idle = {}
        /\ unit[p] \notin written
        /\ units[unit[p]] = newBufferUnit
        /\ \A q \in Procs \ {p} :
              /\ pc[q] \in {"read", "decode", "dispatch", "release"}
              /\ unit[q] \notin {NoUnit, unit[p]}

\* What ServeHTTP does with a read body on a bufferUnit that has never been
\* used: the callback and what it is given.
FreshOutcome(body) ==
    LET d == xmlUnmarshal(body, newBufferUnit.msgRequest)
    IN  IF d.err # ""
        THEN [h |-> "InvalidRequestHandler", arg |-> d.err]
        ELSE RequestRouter(d.v, Slice(NoUnit, NoUnit, body))

\* Two callbacks are the same handler given the same value or the same
\* bytes.
SameOutcome(c, d) ==
    /\ c.h = d.h
    /\ IF c.h = "UnknownRequestHandler"
       THEN View(c.arg) = View(d.arg)
       ELSE c.arg = d.arg

\* C18: the callback of an authentic POST whose body has been read, and the
\* value or bytes it is given, are those the same body gets on a bufferUnit
\* that has never been used, whatever the requests were that held the unit
\* before.
C18_NoPoolHistory ==
    \A p \in Procs :
        (req[p].method = "POST" /\ Authentic(req[p]) /\ Took(p, "read")
            /\ pc[p] \in {"release", "returned"}) =>
            /\ Len(calls[p]) = 1
            /\ SameOutcome(calls[p][1], FreshOutcome(req[p].body))

\* A subscribe event without Ticket has gone to SubscribeEventHandler on a
\* bufferUnit that was released after an earlier request had read its body
\* into it.
C18_Witness ==
    \E p \in Procs :
        /\ pc[p] = "release"
        /\ unit[p] \in written
        /\ Took(p, "dispatch")
        /\ BodyField(req[p].body, "Ticket") = ""
        /\ Len(calls[p]) = 1
        /\ calls[p][1].h = "SubscribeEventHandler"

====
